---- MODULE Spec2Model ----
(***************************************************************************)
(* Bubble shooter engine of workspaces/test1/output/src/js/game/           *)
(* BubbleGrid.js: BubbleGrid (staggered hex grid), Shooter, Bubble and the *)
(* BubbleGame loop, as a state machine.                                    *)
(*                                                                         *)
(* Numbers.  Pixel quantities are fixed-point integers in 1/100 pixel      *)
(* (20 px = 2000), angles are whole degrees in canvas orientation (y grows *)
(* downward, -90 is straight up).  Math.round, the JavaScript remainder,   *)
(* Math.atan2, Math.cos and Math.sin are modelled by JsRound, JsRem,       *)
(* Atan2Deg, CosPower and SinPower below.                                  *)
(*                                                                         *)
(* Scale.  BubbleGame builds a 10 x 16 grid on an 800 x 600 canvas with    *)
(* the shooter at (400, 550) and fills the upper 5 rows of a level.  The   *)
(* model keeps the cell geometry (radius 20, origin (50, 50)) and scales   *)
(* the playfield with the bounds Rows and Cols: the canvas ends one margin *)
(* right of the grid, the shooter stands in the middle just below the last *)
(* row, and a level fills row 0.                                           *)
(***************************************************************************)
EXTENDS Integers, Sequences, FiniteSets, TLC

\* ------------------------------------------------------------------ bounds
Rows == 2
Cols == 2
MaxMoving == 1
MaxLevel == 1
MaxScore == 30
MaxTimers == 1
MaxOccupied == 4
ProbeMargin == 100
ProbeSpeed == 300
MaxDim == 4
StoredScore == 20
MaxUpdates == 22
WideRows == 2
WideCols == 3
WideOccupied == 5

\* --------------------------------------------------------- program numbers
bubbleRadius == 2000
hexOffsetX == 2 * bubbleRadius
hexOffsetY == 3464
startX == 5000
startY == 5000
ShotRadius == 1500
ShotOffsetY == 3000
TopThreshold == 5000
MinAngle == -144
MaxAngle == -36
UpAngle == -90
ExplodeFrames == 20
ScorePerBubble == 10
MinGroup == 3

CanvasWidth == 2 * startX + (Cols - 1) * hexOffsetX + bubbleRadius
ShooterX == CanvasWidth \div 2
ShooterY == startY + Rows * hexOffsetY + ShotOffsetY
CanvasHeight == ShooterY + startY
LevelRows == 1
GameRows == 10
GameCols == 16

\* The first two colours of the five-colour arrays; a run draws from a
\* palette fixed when it starts.
Colors == {"#FF6B6B", "#FFB347"}
OneColor == {"#FF6B6B"}

Null == [id |-> 0]
IsNull(b) == b.id = 0

Cells == (0 .. Rows - 1) \X (0 .. Cols - 1)

\* ------------------------------------------------------------- arithmetic
Abs(n) == IF n < 0 THEN -n ELSE n
Max(a, b) == IF a > b THEN a ELSE b
Min(a, b) == IF a < b THEN a ELSE b

\* Math.round(n / d) for d > 0: floor(n/d + 1/2), halves go up.
JsRound(n, d) == (2 * n + d) \div (2 * d)

\* The JavaScript remainder n % 2: the sign of the dividend.
JsRem(n, d) == IF n < 0 THEN -((-n) % d) ELSE n % d

\* Math.atan2(dy, dx) in whole degrees, tabulated for the slopes
\* 0, 1/2, 1, 2 and vertical (atan 1/2 = 26.57, atan 2 = 63.43).
FirstQuadrant(ady, adx) ==
    CASE adx = 0 /\ ady = 0 -> 0
      [] adx = 0 -> 90
      [] ady = 0 -> 0
      [] ady = adx -> 45
      [] 2 * ady = adx -> 27
      [] ady = 2 * adx -> 63

Atan2Deg(dy, dx) ==
    LET base == FirstQuadrant(Abs(dy), Abs(dx)) IN
    IF dx >= 0
    THEN (IF dy >= 0 THEN base ELSE -base)
    ELSE (IF dy >= 0 THEN 180 - base ELSE base - 180)

\* power * Math.cos(angle) and power * Math.sin(angle) with power = 12 px,
\* for the angles Atan2Deg returns and the two ends of the cone.
CosOfAbs(a) ==
    CASE a = 0 -> 1200
      [] a = 27 -> 1069
      [] a = 36 -> 971
      [] a = 45 -> 849
      [] a = 63 -> 545
      [] a = 90 -> 0
      [] a = 117 -> -545
      [] a = 135 -> -849
      [] a = 144 -> -971
      [] a = 153 -> -1069
      [] a = 180 -> -1200

CosPower(angle) == CosOfAbs(Abs(angle))

SinOfAbs(a) ==
    CASE a = 0 -> 0
      [] a = 27 -> 545
      [] a = 36 -> 705
      [] a = 45 -> 849
      [] a = 63 -> 1069
      [] a = 90 -> 1200
      [] a = 117 -> 1069
      [] a = 135 -> 849
      [] a = 144 -> 705
      [] a = 153 -> 545
      [] a = 180 -> 0

SinPower(angle) == IF angle < 0 THEN -SinOfAbs(-angle) ELSE SinOfAbs(angle)

\* ----------------------------------------------------------------- Bubble
\* new Bubble(x, y, color, radius)
NewBubble(id, x, y, color, radius) ==
    [id |-> id, x |-> x, y |-> y, color |-> color, radius |-> radius,
     vx |-> 0, vy |-> 0, state |-> "static", animationFrame |-> 0,
     gridRow |-> -1, gridCol |-> -1]

\* Bubble.update
BubbleUpdate(b) ==
    CASE b.state = "moving" -> [b EXCEPT !.x = b.x + b.vx, !.y = b.y + b.vy]
      [] b.state = "falling" ->
            [b EXCEPT !.vy = b.vy + 50,
                      !.x = b.x + (b.vx * 98) \div 100,
                      !.y = b.y + b.vy + 50]
      [] b.state = "exploding" ->
            [b EXCEPT !.animationFrame = b.animationFrame + 1,
                      !.state = IF b.animationFrame + 1 > ExplodeFrames
                                THEN "destroyed" ELSE "exploding"]
      [] OTHER -> b

\* Bubble.collidesWith
CollidesWith(a, b) ==
    LET dx == a.x - b.x
        dy == a.y - b.y
        rr == a.radius + b.radius
    IN dx * dx + dy * dy < rr * rr

\* Bubble.setGridPosition
SetGridPosition(b, row, col) == [b EXCEPT !.gridRow = row, !.gridCol = col]

\* Bubble.explode
Explode(b) == [b EXCEPT !.state = "exploding", !.animationFrame = 0]

\* Bubble.stop
Stop(b) == [b EXCEPT !.state = "static", !.vx = 0, !.vy = 0]

\* bounceOffWalls with a floor that reflects as the ceiling does
BounceOffWallsAndFloor(b, canvasWidth, canvasHeight) ==
    LET hit == b.x <= b.radius \/ b.x >= canvasWidth - b.radius
        b1 == IF hit
              THEN [b EXCEPT !.vx = -b.vx,
                             !.x = Max(b.radius, Min(canvasWidth - b.radius, b.x))]
              ELSE b
    IN IF b1.y <= b1.radius
       THEN [b1 EXCEPT !.vy = -b1.vy, !.y = b1.radius]
       ELSE IF b1.y >= canvasHeight - b1.radius
            THEN [b1 EXCEPT !.vy = -b1.vy, !.y = canvasHeight - b1.radius]
            ELSE b1

\* Bubble.bounceOffWalls (canvasHeight is received and never read)
BounceOffWalls(b, canvasWidth, canvasHeight) ==
    LET hit == b.x <= b.radius \/ b.x >= canvasWidth - b.radius
        b1 == IF hit
              THEN [b EXCEPT !.vx = -b.vx,
                             !.x = Max(b.radius, Min(canvasWidth - b.radius, b.x))]
              ELSE b
    IN IF b1.y <= b1.radius
       THEN [b1 EXCEPT !.vy = -b1.vy, !.y = b1.radius]
       ELSE b1

\* ------------------------------------------------------------- BubbleGrid
\* BubbleGrid.initGrid
EmptyGrid == [cell \in Cells |-> Null]

\* BubbleGrid.getPosition
GetPosition(row, col) ==
    [x |-> startX + col * hexOffsetX + JsRem(row, 2) * bubbleRadius,
     y |-> startY + row * hexOffsetY]

\* getGridPosition without the shift of the odd rows
GetGridPositionUnshifted(x, y) ==
    [row |-> JsRound(y - startY, hexOffsetY), col |-> JsRound(x - startX, hexOffsetX)]

\* BubbleGrid.getGridPosition
GetGridPosition(x, y) ==
    LET row == JsRound(y - startY, hexOffsetY)
        offsetX == JsRem(row, 2) * bubbleRadius
        col == JsRound(x - startX - offsetX, hexOffsetX)
    IN [row |-> row, col |-> col]

\* BubbleGrid.isValidPosition of a grid of rows x cols cells
IsValidIn(rows, cols, row, col) == row >= 0 /\ row < rows /\ col >= 0 /\ col < cols

\* BubbleGrid.isValidPosition of the grid of the game
IsValidPosition(row, col) == IsValidIn(Rows, Cols, row, col)

\* BubbleGrid.getBubble
GetBubble(g, row, col) == IF IsValidPosition(row, col) THEN g[<<row, col>>] ELSE Null

\* addBubble without the snap to the cell centre: the bubble keeps the pixel
\* position it landed with.
AddBubbleUnsnapped(g, row, col, bubble) ==
    IF IsValidPosition(row, col)
    THEN LET placed == Stop(SetGridPosition(bubble, row, col))
         IN [ok |-> TRUE, grid |-> [g EXCEPT ![<<row, col>>] = placed], bubble |-> placed]
    ELSE [ok |-> FALSE, grid |-> g, bubble |-> bubble]

\* addBubble that stops the bubble and writes its cell before looking at the
\* range
AddBubbleStoppingFirst(g, row, col, bubble) ==
    LET pos == GetPosition(row, col)
        placed == Stop(SetGridPosition([bubble EXCEPT !.x = pos.x, !.y = pos.y], row, col))
    IN IF IsValidPosition(row, col)
       THEN [ok |-> TRUE, grid |-> [g EXCEPT ![<<row, col>>] = placed], bubble |-> placed]
       ELSE [ok |-> FALSE, grid |-> g, bubble |-> placed]

\* addBubble without the call of stop: the bubble keeps its state and its
\* velocity.
AddBubbleUnstopped(g, row, col, bubble) ==
    IF IsValidPosition(row, col)
    THEN LET pos == GetPosition(row, col)
             placed == SetGridPosition([bubble EXCEPT !.x = pos.x, !.y = pos.y], row, col)
         IN [ok |-> TRUE, grid |-> [g EXCEPT ![<<row, col>>] = placed], bubble |-> placed]
    ELSE [ok |-> FALSE, grid |-> g, bubble |-> bubble]

\* BubbleGrid.addBubble: [ok, grid, bubble], bubble being the passed object
\* as the call leaves it
AddBubble(g, row, col, bubble) ==
    IF IsValidPosition(row, col)
    THEN LET pos == GetPosition(row, col)
             placed == Stop(SetGridPosition([bubble EXCEPT !.x = pos.x, !.y = pos.y],
                                            row, col))
         IN [ok |-> TRUE, grid |-> [g EXCEPT ![<<row, col>>] = placed], bubble |-> placed]
    ELSE [ok |-> FALSE, grid |-> g, bubble |-> bubble]

\* BubbleGrid.removeBubble: [bubble, grid]
RemoveBubble(g, row, col) ==
    IF IsValidPosition(row, col)
    THEN [bubble |-> g[<<row, col>>], grid |-> [g EXCEPT ![<<row, col>>] = Null]]
    ELSE [bubble |-> Null, grid |-> g]

\* The offset table of BubbleGrid.getNeighbors
\* getNeighbors with the even-row offsets for every row
NeighborOffsetsUnmirrored(row) ==
    << <<-1, -1>>, <<-1, 0>>, <<0, -1>>, <<0, 1>>, <<1, -1>>, <<1, 0>> >>

NeighborOffsets(row) ==
    IF JsRem(row, 2) = 0
    THEN << <<-1, -1>>, <<-1, 0>>, <<0, -1>>, <<0, 1>>, <<1, -1>>, <<1, 0>> >>
    ELSE << <<-1, 0>>, <<-1, 1>>, <<0, -1>>, <<0, 1>>, <<1, 0>>, <<1, 1>> >>

\* BubbleGrid.getNeighbors on a grid of rows x cols cells: the in-range
\* neighbours, in offset order
RECURSIVE NeighborsFrom(_, _, _, _, _)
NeighborsFrom(rows, cols, row, col, i) ==
    IF i > 6 THEN <<>>
    ELSE LET off == NeighborOffsets(row)[i]
             newRow == row + off[1]
             newCol == col + off[2]
         IN (IF IsValidIn(rows, cols, newRow, newCol)
             THEN << <<newRow, newCol>> >> ELSE <<>>)
            \o NeighborsFrom(rows, cols, row, col, i + 1)

\* getNeighbors without the range test
NeighborsUnfiltered(rows, cols, row, col) ==
    [i \in 1 .. 6 |-> <<row + NeighborOffsets(row)[i][1], col + NeighborOffsets(row)[i][2]>>]

NeighborsIn(rows, cols, row, col) == NeighborsFrom(rows, cols, row, col, 1)

\* BubbleGrid.getNeighbors on the grid of the game
GetNeighbors(row, col) == NeighborsIn(Rows, Cols, row, col)

\* BubbleGrid.findConnectedBubbles.  The visited set is shared by the whole
\* recursion (passed by reference), so each call returns it with the list.
RECURSIVE FindConnected(_, _, _, _, _)
RECURSIVE VisitNeighbors(_, _, _, _, _)
FindConnected(g, row, col, color, visited) ==
    IF <<row, col>> \in visited
    THEN [connected |-> <<>>, visited |-> visited]
    ELSE LET bubble == GetBubble(g, row, col) IN
         IF IsNull(bubble) \/ bubble.color # color
         THEN [connected |-> <<>>, visited |-> visited]
         ELSE VisitNeighbors(g, GetNeighbors(row, col), 1, color,
                  [connected |-> << [row |-> row, col |-> col, bubble |-> bubble] >>,
                   visited |-> visited \cup {<<row, col>>}])

\* The loop with the visited set copied into each recursive call instead of
\* shared: what one neighbour's search visits is forgotten by the next.
RECURSIVE VisitNeighborsByValue(_, _, _, _, _)
VisitNeighborsByValue(g, neighbors, i, color, acc) ==
    IF i > Len(neighbors) THEN acc
    ELSE LET sub == FindConnected(g, neighbors[i][1], neighbors[i][2], color, acc.visited)
         IN VisitNeighborsByValue(g, neighbors, i + 1, color,
                [connected |-> acc.connected \o sub.connected, visited |-> acc.visited])

VisitNeighbors(g, neighbors, i, color, acc) ==
    IF i > Len(neighbors) THEN acc
    ELSE LET sub == FindConnected(g, neighbors[i][1], neighbors[i][2], color, acc.visited)
         IN VisitNeighbors(g, neighbors, i + 1, color,
                [connected |-> acc.connected \o sub.connected, visited |-> sub.visited])

FindConnectedBubbles(g, row, col, color) == FindConnected(g, row, col, color, {}).connected

\* BubbleGrid.findNearestEmptyPosition
RECURSIVE ScanUp(_, _, _)
ScanUp(g, r, col) ==
    IF r < 0 THEN [row |-> 0, col |-> col]
    ELSE IF IsNull(GetBubble(g, r, col)) THEN [row |-> r, col |-> col]
    ELSE ScanUp(g, r - 1, col)

\* findNearestEmptyPosition without the clamp into the grid
FindNearestUnclamped(g, x, y) ==
    LET gridPos == GetGridPosition(x, y)
    IN IF IsNull(GetBubble(g, gridPos.row, gridPos.col))
       THEN [row |-> gridPos.row, col |-> gridPos.col]
       ELSE ScanUp(g, gridPos.row, gridPos.col)

\* BubbleGrid.findNearestEmptyPosition
FindNearestEmptyPosition(g, x, y) ==
    LET gridPos == GetGridPosition(x, y)
        row == Max(0, Min(Rows - 1, gridPos.row))
        col == Max(0, Min(Cols - 1, gridPos.col))
    IN IF IsNull(GetBubble(g, row, col))
       THEN [row |-> row, col |-> col]
       ELSE ScanUp(g, row, col)

\* isGameOver looking at every row instead of the last
IsGameOverAnyRow(g) ==
    \E row \in 0 .. Rows - 1 : \E col \in 0 .. Cols - 1 : ~IsNull(GetBubble(g, row, col))

\* BubbleGrid.isGameOver
IsGameOver(g) == \E col \in 0 .. Cols - 1 : ~IsNull(GetBubble(g, Rows - 1, col))

\* BubbleGrid.isWin
IsWin(g) == \A row \in 0 .. Rows - 1 : \A col \in 0 .. Cols - 1 : IsNull(GetBubble(g, row, col))

\* BubbleGrid.getAllBubbles: the occupants in row-major order
RECURSIVE AllBubblesFrom(_, _)
AllBubblesFrom(g, k) ==
    IF k >= Rows * Cols THEN <<>>
    ELSE LET bubble == GetBubble(g, k \div Cols, k % Cols)
         IN (IF IsNull(bubble) THEN <<>> ELSE <<bubble>>) \o AllBubblesFrom(g, k + 1)

GetAllBubbles(g) == AllBubblesFrom(g, 0)

\* BubbleGrid.update: every occupant's Bubble.update
GridUpdate(g) == [cell \in Cells |-> IF IsNull(g[cell]) THEN Null ELSE BubbleUpdate(g[cell])]

\* BubbleGrid.createLevel after BubbleGrid.clear: the rows of levelData.bubbles
\* in order, a fresh Bubble for each colour, addBubble dropping what lies
\* outside the grid.  Objects are numbered in creation order from firstId.
NoColor == "none"

RECURSIVE CreateFrom(_, _, _, _, _)
CreateFrom(g, bubbles, row, col, nextId) ==
    IF row >= Len(bubbles) THEN g
    ELSE IF col >= Len(bubbles[row + 1]) THEN CreateFrom(g, bubbles, row + 1, 0, nextId)
    ELSE LET color == bubbles[row + 1][col + 1] IN
         IF color = NoColor THEN CreateFrom(g, bubbles, row, col + 1, nextId)
         ELSE LET pos == GetPosition(row, col)
                  bubble == NewBubble(nextId, pos.x, pos.y, color, bubbleRadius)
              IN CreateFrom(AddBubble(g, row, col, bubble).grid, bubbles, row, col + 1,
                            nextId + 1)

\* BubbleGrid.clear
Clear(g) == EmptyGrid

\* createLevel without the clear: the layout is laid over what is there
CreateLevelUncleared(g, bubbles, firstId) == CreateFrom(g, bubbles, 0, 0, firstId)

\* BubbleGrid.createLevel on the grid g
CreateLevel(g, bubbles, firstId) == CreateFrom(Clear(g), bubbles, 0, 0, firstId)

\* ---------------------------------------------------------------- Shooter
Point(x, y) == [x |-> x, y |-> y]

\* Shooter.generateRandomBubble with the colour drawn by Math.random
GenerateBubble(id, color) == NewBubble(id, ShooterX, ShooterY - ShotOffsetY, color, ShotRadius)

\* Shooter.calculateTrajectory: at most 100 steps from the muzzle, the side
\* walls at radius 15 from the canvas edges, stopping at y <= 50.
MaxSteps == 100

RECURSIVE TrajectoryFrom(_, _, _, _, _)
TrajectoryFrom(i, x, y, vx, vy) ==
    IF i >= MaxSteps THEN <<>>
    ELSE LET x1 == x + vx
             y1 == y + vy
             hit == x1 <= ShotRadius \/ x1 >= CanvasWidth - ShotRadius
             vx2 == IF hit THEN -vx ELSE vx
             x2 == IF hit THEN Max(ShotRadius, Min(CanvasWidth - ShotRadius, x1)) ELSE x1
         IN IF y1 <= TopThreshold THEN <<>>
            ELSE <<Point(x2, y1)>> \o TrajectoryFrom(i + 1, x2, y1, vx2, vy)

\* calculateTrajectory that starts at the pivot instead of the muzzle
CalculateTrajectoryFromPivot(angle) ==
    TrajectoryFrom(0, ShooterX, ShooterY, CosPower(angle), SinPower(angle))

\* Shooter.calculateTrajectory
CalculateTrajectory(angle) ==
    TrajectoryFrom(0, ShooterX, ShooterY - ShotOffsetY, CosPower(angle), SinPower(angle))

\* aim without the clamp
AimUnclamped(sh, targetX, targetY) ==
    LET angle == Atan2Deg(targetY - ShooterY, targetX - ShooterX)
    IN [sh EXCEPT !.angle = angle, !.trajectory = CalculateTrajectory(angle)]

\* Shooter.aim
Aim(sh, targetX, targetY) ==
    LET raw == Atan2Deg(targetY - ShooterY, targetX - ShooterX)
        angle == Max(MinAngle, Min(MaxAngle, raw))
    IN [sh EXCEPT !.angle = angle, !.trajectory = CalculateTrajectory(angle)]

\* shoot that leaves the fired bubble in the loaded slot
ShooterShootKeeping(sh, newId, newColor) ==
    IF IsNull(sh.currentBubble)
    THEN [bubble |-> Null, shooter |-> sh]
    ELSE LET fired == [sh.currentBubble EXCEPT !.x = ShooterX,
                                               !.y = ShooterY - ShotOffsetY,
                                               !.vx = CosPower(sh.angle),
                                               !.vy = SinPower(sh.angle),
                                               !.state = "moving"]
         IN [bubble |-> fired,
             shooter |-> [sh EXCEPT !.currentBubble = fired,
                                    !.nextBubble = GenerateBubble(newId, newColor)]]

\* Shooter.shoot: [bubble, shooter]
ShooterShoot(sh, newId, newColor) ==
    IF IsNull(sh.currentBubble)
    THEN [bubble |-> Null, shooter |-> sh]
    ELSE [bubble |-> [sh.currentBubble EXCEPT !.x = ShooterX,
                                              !.y = ShooterY - ShotOffsetY,
                                              !.vx = CosPower(sh.angle),
                                              !.vy = SinPower(sh.angle),
                                              !.state = "moving"],
          shooter |-> [sh EXCEPT !.currentBubble = sh.nextBubble,
                                 !.nextBubble = GenerateBubble(newId, newColor)]]

\* Shooter.update
ShooterUpdate(sh) ==
    IF IsNull(sh.currentBubble) THEN sh
    ELSE [sh EXCEPT !.currentBubble.x = ShooterX, !.currentBubble.y = ShooterY - ShotOffsetY]

\* Shooter.reset (and the constructor, which leaves the same state)
ShooterReset(id1, color1, id2, color2) ==
    [angle |-> UpAngle, trajectory |-> <<>>,
     currentBubble |-> GenerateBubble(id1, color1),
     nextBubble |-> GenerateBubble(id2, color2)]

\* Shooter.render: drawing the loaded bubble puts it at the muzzle (everything
\* else in render only reads)
ShooterRender(sh) ==
    IF IsNull(sh.currentBubble) THEN sh
    ELSE [sh EXCEPT !.currentBubble.x = ShooterX, !.currentBubble.y = ShooterY - ShotOffsetY]

\* swapBubbles without the temporary: both slots end on the queued bubble
SwapBubblesWithoutTemp(sh) ==
    [sh EXCEPT !.currentBubble = sh.nextBubble, !.nextBubble = sh.nextBubble]

\* Shooter.swapBubbles
SwapBubbles(sh) ==
    [sh EXCEPT !.currentBubble = sh.nextBubble, !.nextBubble = sh.currentBubble]

\* Shooter.setAvailableColors: the palette is replaced (by the caller's
\* argument) and both bubbles are generated again; angle and trajectory stay
SetAvailableColors(sh, id1, color1, id2, color2) ==
    [sh EXCEPT !.currentBubble = GenerateBubble(id1, color1),
               !.nextBubble = GenerateBubble(id2, color2)]

\* Shooter.canShoot
CanShoot(sh) == ~IsNull(sh.currentBubble)

\* ------------------------------------------------------------- BubbleGame
VARIABLES
    gameState,       \* 'menu', 'playing', 'paused', 'win', 'gameover'
    score,
    level,
    highScore,
    storage,         \* localStorage item 'bubbleGameHighScore': a score, or NoItem
    exploded,        \* the Bubble objects the latest elimination took out of the
                     \* grid, as explode() left them; no collection holds them
    grid,            \* bubbleGrid.grid: cell -> Bubble or Null
    shooter,         \* angle, trajectory, currentBubble, nextBubble
    movingBubbles,   \* sequence of Bubble
    timers,          \* pending setTimeout callbacks, oldest first (equal delays)
    menuShown,       \* the main menu is visible (showMainMenu / showGameScreen)
    palette,         \* the colours Math.random picks from (shooter.colors)
    probe            \* the last direct call on the grid and what it returned

vars == <<gameState, score, level, highScore, storage, exploded, grid, shooter, movingBubbles, timers,
          menuShown, palette, probe>>

\* Objects are told apart by id.  Ids stand for addresses, so only their
\* equalities matter: every state numbers its live objects 1, 2, ... in the
\* order grid (row-major), in-flight, loaded, queued, and an object held in
\* two places keeps one number.
GridIds(g) == {g[cell].id : cell \in {c \in Cells : ~IsNull(g[c])}}
MovingIds(m) == {m[i].id : i \in 1 .. Len(m)}
ShooterIds(sh) == {sh.currentBubble.id, sh.nextBubble.id} \ {0}
LiveIds(g, m, sh) == GridIds(g) \cup MovingIds(m) \cup ShooterIds(sh)
FreshId(used) == CHOOSE i \in 1 .. Cardinality(used) + 1 : i \notin used

IdOrder(g, m, sh) ==
    LET all == GetAllBubbles(g) \o m \o <<sh.currentBubble, sh.nextBubble>>
    IN [i \in 1 .. Len(all) |-> all[i].id]

Rank(order, id) ==
    LET first == CHOOSE i \in 1 .. Len(order) :
                     order[i] = id /\ \A j \in 1 .. i - 1 : order[j] # id
    IN Cardinality({order[j] : j \in 1 .. first - 1} \ {0}) + 1

Renumber(b, order) == IF IsNull(b) THEN b ELSE [b EXCEPT !.id = Rank(order, b.id)]

RenumberGrid(g, order) == [cell \in Cells |-> Renumber(g[cell], order)]
RenumberMoving(m, order) == [i \in 1 .. Len(m) |-> Renumber(m[i], order)]
RenumberShooter(sh, order) ==
    [sh EXCEPT !.currentBubble = Renumber(sh.currentBubble, order),
               !.nextBubble = Renumber(sh.nextBubble, order)]

\* The layouts BubbleGame.createInitialBubbles can draw: LevelRows rows, one
\* cell less in odd rows, each cell a colour or empty.
Layouts(colors) ==
    {l \in [1 .. LevelRows ->
                UNION {[1 .. n -> colors \cup {NoColor}] : n \in {Cols - 1, Cols}}] :
        \A r \in 1 .. LevelRows : Len(l[r]) = Cols - ((r - 1) % 2)}

\* The targets of pointer events: straight above, below, left and right of
\* the pivot, and flat to the upper left.
AimStep == 1000
AimTargets ==
    {Point(ShooterX, ShooterY - AimStep), Point(ShooterX, ShooterY + AimStep),
     Point(ShooterX - AimStep, ShooterY), Point(ShooterX + AimStep, ShooterY),
     Point(ShooterX - 2 * AimStep, ShooterY - AimStep)}

\* No direct call has been made
NoProbe == [op |-> "none"]

\* localStorage.getItem of a key that was never set
NoItem == -1

\* The constructor's read: localStorage.getItem('bubbleGameHighScore') || 0
\* (the item comes back as the decimal string of the number that was set,
\* and every later comparison and display converts it back to that number)
ReadHighScore(item) == IF item = NoItem THEN 0 ELSE item

\* updateScore that raises the high score without saving it
UpdateScoreUnsaved(w) ==
    IF w.score > w.highScore THEN [w EXCEPT !.highScore = w.score] ELSE w

\* BubbleGame.updateScore, on [grid, score, highScore, stored, exploded]
UpdateScore(w) ==
    IF w.score > w.highScore
    THEN [w EXCEPT !.highScore = w.score, !.stored = w.score]
    ELSE w

\* The removal loop started one entry late: the landing cell, first in the
\* list, is left in place and not counted.
RECURSIVE EliminateFrom(_, _, _, _)
EliminateAfterFirst(g, connected, i, count) ==
    IF i > Len(connected) THEN [grid |-> g, count |-> count, bubbles |-> <<>>]
    ELSE IF i = 1 THEN EliminateFrom(g, connected, 2, count)
    ELSE LET removed == RemoveBubble(g, connected[i].row, connected[i].col)
             rest == EliminateFrom(removed.grid, connected, i + 1,
                                   IF IsNull(removed.bubble) THEN count ELSE count + 1)
         IN IF IsNull(removed.bubble) THEN rest
            ELSE [rest EXCEPT !.bubbles = <<Explode(removed.bubble)>> \o rest.bubbles]

\* The removal loop of BubbleGame.checkElimination
EliminateFrom(g, connected, i, count) ==
    IF i > Len(connected) THEN [grid |-> g, count |-> count, bubbles |-> <<>>]
    ELSE LET removed == RemoveBubble(g, connected[i].row, connected[i].col)
             rest == EliminateFrom(removed.grid, connected, i + 1,
                                   IF IsNull(removed.bubble) THEN count ELSE count + 1)
         IN IF IsNull(removed.bubble) THEN rest
            ELSE [rest EXCEPT !.bubbles = <<Explode(removed.bubble)>> \o rest.bubbles]

\* checkElimination with the threshold one lower: a pair is eliminated.
CheckEliminationOfPairs(w, row, col) ==
    LET bubble == GetBubble(w.grid, row, col) IN
    IF IsNull(bubble) THEN w
    ELSE LET connected == FindConnectedBubbles(w.grid, row, col, bubble.color) IN
         IF Len(connected) >= MinGroup - 1
         THEN LET out == EliminateFrom(w.grid, connected, 1, 0)
              IN UpdateScore([w EXCEPT !.grid = out.grid,
                                       !.exploded = out.bubbles,
                                       !.score = w.score + out.count * ScorePerBubble])
         ELSE w

\* BubbleGame.checkElimination (checkFallingBubbles is empty)
CheckElimination(w, row, col) ==
    LET bubble == GetBubble(w.grid, row, col) IN
    IF IsNull(bubble) THEN w
    ELSE LET connected == FindConnectedBubbles(w.grid, row, col, bubble.color) IN
         IF Len(connected) >= MinGroup
         THEN LET out == EliminateFrom(w.grid, connected, 1, 0)
              IN UpdateScore([w EXCEPT !.grid = out.grid,
                                       !.exploded = out.bubbles,
                                       !.score = w.score + out.count * ScorePerBubble])
         ELSE w

\* ---------------------------------------- elimination on a grid of any size
\* The same methods on a BubbleGrid constructed with rows x cols cells
\* (this.rows, this.cols): getBubble, removeBubble, findConnectedBubbles and
\* BubbleGame.checkElimination with its call of checkFallingBubbles.
GetBubbleIn(rows, cols, g, row, col) ==
    IF IsValidIn(rows, cols, row, col) THEN g[<<row, col>>] ELSE Null

RemoveBubbleIn(rows, cols, g, row, col) ==
    IF IsValidIn(rows, cols, row, col)
    THEN [bubble |-> g[<<row, col>>], grid |-> [g EXCEPT ![<<row, col>>] = Null]]
    ELSE [bubble |-> Null, grid |-> g]

RECURSIVE FindConnectedIn(_, _, _, _, _, _, _)
RECURSIVE VisitNeighborsIn(_, _, _, _, _, _, _)
FindConnectedIn(rows, cols, g, row, col, color, visited) ==
    IF <<row, col>> \in visited
    THEN [connected |-> <<>>, visited |-> visited]
    ELSE LET bubble == GetBubbleIn(rows, cols, g, row, col) IN
         IF IsNull(bubble) \/ bubble.color # color
         THEN [connected |-> <<>>, visited |-> visited]
         ELSE VisitNeighborsIn(rows, cols, g, NeighborsIn(rows, cols, row, col), 1, color,
                  [connected |-> << [row |-> row, col |-> col, bubble |-> bubble] >>,
                   visited |-> visited \cup {<<row, col>>}])

VisitNeighborsIn(rows, cols, g, neighbors, i, color, acc) ==
    IF i > Len(neighbors) THEN acc
    ELSE LET sub == FindConnectedIn(rows, cols, g, neighbors[i][1], neighbors[i][2], color,
                                    acc.visited)
         IN VisitNeighborsIn(rows, cols, g, neighbors, i + 1, color,
                [connected |-> acc.connected \o sub.connected, visited |-> sub.visited])

FindConnectedBubblesIn(rows, cols, g, row, col, color) ==
    FindConnectedIn(rows, cols, g, row, col, color, {}).connected

RECURSIVE EliminateFromIn(_, _, _, _, _, _)
EliminateFromIn(rows, cols, g, connected, i, count) ==
    IF i > Len(connected) THEN [grid |-> g, count |-> count, bubbles |-> <<>>]
    ELSE LET removed == RemoveBubbleIn(rows, cols, g, connected[i].row, connected[i].col)
             rest == EliminateFromIn(rows, cols, removed.grid, connected, i + 1,
                                     IF IsNull(removed.bubble) THEN count ELSE count + 1)
         IN IF IsNull(removed.bubble) THEN rest
            ELSE [rest EXCEPT !.bubbles = <<Explode(removed.bubble)>> \o rest.bubbles]

\* The occupied cells joined to the first row through occupied neighbours
RECURSIVE SupportedIn(_, _, _, _)
SupportedIn(rows, cols, g, S) ==
    LET more == {n \in (0 .. rows - 1) \X (0 .. cols - 1) :
                    /\ ~IsNull(g[n])
                    /\ \/ n[1] = 0
                       \/ \E c \in S, i \in 1 .. 6 :
                              /\ i <= Len(NeighborsIn(rows, cols, c[1], c[2]))
                              /\ NeighborsIn(rows, cols, c[1], c[2])[i] = n}
    IN IF more \subseteq S THEN S ELSE SupportedIn(rows, cols, g, S \cup more)

\* checkFallingBubbles with the detection written: every occupant that is not
\* joined to the first row leaves the grid.
CheckFallingBubblesDropping(rows, cols, w) ==
    LET kept == SupportedIn(rows, cols, w.grid, {})
    IN [w EXCEPT !.grid = [cell \in DOMAIN w.grid |->
                              IF cell \in kept THEN w.grid[cell] ELSE Null]]

\* BubbleGame.checkFallingBubbles: its body holds two comments and nothing
\* else
CheckFallingBubbles(rows, cols, w) == w

CheckEliminationIn(rows, cols, w, row, col) ==
    LET bubble == GetBubbleIn(rows, cols, w.grid, row, col) IN
    IF IsNull(bubble) THEN w
    ELSE LET connected == FindConnectedBubblesIn(rows, cols, w.grid, row, col, bubble.color) IN
         IF Len(connected) >= MinGroup
         THEN LET out == EliminateFromIn(rows, cols, w.grid, connected, 1, 0)
              IN CheckFallingBubbles(rows, cols,
                     UpdateScore([w EXCEPT !.grid = out.grid,
                                           !.exploded = out.bubbles,
                                           !.score = w.score + out.count * ScorePerBubble]))
         ELSE w

\* BubbleGame.attachBubbleToGrid
AttachBubbleToGrid(w, bubble) ==
    LET gridPos == FindNearestEmptyPosition(w.grid, bubble.x, bubble.y)
        added == AddBubble(w.grid, gridPos.row, gridPos.col, bubble)
    IN IF added.ok
       THEN CheckElimination([w EXCEPT !.grid = added.grid], gridPos.row, gridPos.col)
       ELSE w

\* BubbleGame.checkBubbleCollision: [hit, w]
CheckBubbleCollision(w, movingBubble) ==
    LET allBubbles == GetAllBubbles(w.grid) IN
    IF \E i \in 1 .. Len(allBubbles) : CollidesWith(movingBubble, allBubbles[i])
    THEN [hit |-> TRUE, w |-> AttachBubbleToGrid(w, movingBubble)]
    ELSE [hit |-> FALSE, w |-> w]

\* splice(i, 1)
Splice(seq, i) == SubSeq(seq, 1, i - 1) \o SubSeq(seq, i + 1, Len(seq))

\* updateMovingBubbles without the splice after a collision: the bubble is
\* attached and stays in flight.
RECURSIVE UpdateMovingFrom(_, _, _)
UpdateMovingKeepingHit(w, moving, i) ==
    IF i < 1 THEN [w |-> w, moving |-> moving]
    ELSE LET bubble == BounceOffWalls(BubbleUpdate(moving[i]), CanvasWidth, CanvasHeight)
             collision == CheckBubbleCollision(w, bubble)
         IN IF collision.hit
            THEN UpdateMovingFrom(collision.w, [moving EXCEPT ![i] = bubble], i - 1)
            ELSE IF bubble.y <= TopThreshold
            THEN UpdateMovingFrom(AttachBubbleToGrid(w, bubble), Splice(moving, i), i - 1)
            ELSE UpdateMovingFrom(w, [moving EXCEPT ![i] = bubble], i - 1)

\* updateMovingBubbles without the test of the top threshold: only a
\* collision ends a flight.
UpdateMovingPastTop(w, moving, i) ==
    IF i < 1 THEN [w |-> w, moving |-> moving]
    ELSE LET bubble == BounceOffWalls(BubbleUpdate(moving[i]), CanvasWidth, CanvasHeight)
             collision == CheckBubbleCollision(w, bubble)
         IN IF collision.hit
            THEN UpdateMovingFrom(collision.w, Splice(moving, i), i - 1)
            ELSE UpdateMovingFrom(w, [moving EXCEPT ![i] = bubble], i - 1)

\* BubbleGame.updateMovingBubbles, from index i down: [w, moving]
UpdateMovingFrom(w, moving, i) ==
    IF i < 1 THEN [w |-> w, moving |-> moving]
    ELSE LET bubble == BounceOffWalls(BubbleUpdate(moving[i]), CanvasWidth, CanvasHeight)
             collision == CheckBubbleCollision(w, bubble)
         IN IF collision.hit
            THEN UpdateMovingFrom(collision.w, Splice(moving, i), i - 1)
            ELSE IF bubble.y <= TopThreshold
            THEN UpdateMovingFrom(AttachBubbleToGrid(w, bubble), Splice(moving, i), i - 1)
            ELSE UpdateMovingFrom(w, [moving EXCEPT ![i] = bubble], i - 1)

UpdateMovingBubbles(w, moving) == UpdateMovingFrom(w, moving, Len(moving))

\* BubbleGame.checkGameState: [gameState, level, timers]
CheckGameState(g, st) ==
    LET won == IF IsWin(g)
               THEN [gameState |-> "win", level |-> st.level + 1,
                     timers |-> Append(st.timers, "win")]
               ELSE st
    IN IF IsGameOver(g)
       THEN [won EXCEPT !.gameState = "gameover", !.timers = Append(won.timers, "gameover")]
       ELSE won

\* BubbleGame.initLevel with the draws of Math.random: the layout and the
\* colours of the two shooter bubbles
InitLevel(layout, color1, color2) ==
    LET g == CreateLevel(grid, layout, 1)
        id1 == FreshId(GridIds(g))
        id2 == FreshId(GridIds(g) \cup {id1})
    IN /\ movingBubbles' = <<>>
       /\ grid' = g
       /\ shooter' = ShooterReset(id1, color1, id2, color2)
       /\ exploded' = [i \in 1 .. Len(exploded) |-> [exploded[i] EXCEPT !.id = id2 + i]]

\* BubbleGame.startGame
StartGame ==
    \E layout \in Layouts(palette), color1 \in palette, color2 \in palette :
        /\ gameState' = "playing"
        /\ score' = 0
        /\ level' = 1
        /\ LET w == UpdateScore([score |-> 0, highScore |-> highScore, stored |-> storage])
           IN highScore' = w.highScore /\ storage' = w.stored
        /\ menuShown' = FALSE
        /\ InitLevel(layout, color1, color2)
        /\ UNCHANGED <<timers, palette, probe>>

\* click on #start-game
ClickStart == StartGame

\* click on #restart-btn: BubbleGame.restartGame
ClickRestart == StartGame

\* click on #pause-btn: BubbleGame.togglePause
TogglePause ==
    /\ gameState' = CASE gameState = "playing" -> "paused"
                      [] gameState = "paused" -> "playing"
                      [] OTHER -> gameState
    /\ UNCHANGED <<score, level, highScore, storage, exploded, grid, shooter, movingBubbles, timers, menuShown, palette, probe>>

\* BubbleGame.shoot; the in-flight set and the score are capped by the bounds
GameShoot(sh) ==
    /\ Len(movingBubbles) < MaxMoving
    /\ score < MaxScore
    /\ \E color \in palette :
         LET shot == ShooterShoot(sh, FreshId(LiveIds(grid, movingBubbles, sh) \cup MovingIds(exploded)), color)
         IN IF CanShoot(sh) /\ ~IsNull(shot.bubble)
            THEN /\ shooter' = shot.shooter
                 /\ movingBubbles' = Append(movingBubbles, shot.bubble)
            ELSE /\ shooter' = sh
                 /\ UNCHANGED movingBubbles

\* mousemove that aims whatever the state of the game
MouseMoveAnywhere ==
    \E target \in AimTargets :
        /\ shooter' = Aim(shooter, target.x, target.y)
        /\ UNCHANGED <<gameState, score, level, highScore, storage, exploded, grid, movingBubbles,
                       timers, menuShown, palette, probe>>

\* mousemove on the canvas: BubbleGame.handleMouseMove
MouseMove ==
    \E target \in AimTargets :
        IF gameState = "playing"
        THEN /\ shooter' = Aim(shooter, target.x, target.y)
             /\ UNCHANGED <<gameState, score, level, highScore, storage, exploded, grid, movingBubbles,
                            timers, menuShown, palette, probe>>
        ELSE UNCHANGED vars

\* click on the canvas: BubbleGame.handleClick
MouseClick ==
    \E target \in AimTargets :
        IF gameState = "playing"
        THEN /\ GameShoot(Aim(shooter, target.x, target.y))
             /\ UNCHANGED <<gameState, score, level, highScore, storage, exploded, grid, timers, menuShown, palette, probe>>
        ELSE UNCHANGED vars

\* keydown Space
KeySpace ==
    IF gameState = "playing"
    THEN /\ GameShoot(shooter)
         /\ UNCHANGED <<gameState, score, level, highScore, storage, exploded, grid, timers, menuShown, palette, probe>>
    ELSE UNCHANGED vars

\* update that also runs while the game is paused
UpdateRunsWhilePaused == gameState \in {"playing", "paused"}

\* The test BubbleGame.update begins with
UpdateRuns == gameState = "playing"

\* One requestAnimationFrame callback: BubbleGame.gameLoop -> update, render.
\* render draws the game while playing or paused, and drawing the shooter
\* writes the muzzle position into the loaded bubble.  The level counter and
\* the timer queue are capped.
Frame ==
    IF ~UpdateRuns
    THEN /\ shooter' = IF gameState = "paused" THEN ShooterRender(shooter) ELSE shooter
         /\ UNCHANGED <<gameState, score, level, highScore, storage, exploded, grid, movingBubbles, timers,
                        menuShown, palette, probe>>
    ELSE /\ level <= MaxLevel
         /\ Len(timers) < MaxTimers
         /\ LET moved == UpdateMovingBubbles(
                            [grid |-> GridUpdate(grid), score |-> score,
                             highScore |-> highScore, stored |-> storage,
                             exploded |-> exploded], movingBubbles)
                after == CheckGameState(moved.w.grid,
                            [gameState |-> gameState, level |-> level, timers |-> timers])
                sh == IF after.gameState = "playing"
                      THEN ShooterRender(ShooterUpdate(shooter))
                      ELSE ShooterUpdate(shooter)
                order == IdOrder(moved.w.grid, moved.moving, sh)
                            \o [i \in 1 .. Len(moved.w.exploded) |-> moved.w.exploded[i].id]
            IN /\ shooter' = RenumberShooter(sh, order)
               /\ grid' = RenumberGrid(moved.w.grid, order)
               /\ score' = moved.w.score
               /\ highScore' = moved.w.highScore
               /\ storage' = moved.w.stored
               /\ exploded' = RenumberMoving(moved.w.exploded, order)
               /\ movingBubbles' = RenumberMoving(moved.moving, order)
               /\ gameState' = after.gameState
               /\ level' = after.level
               /\ timers' = after.timers
               /\ UNCHANGED <<menuShown, palette, probe>>

\* The win callback with the level increment in it as well
WinTimerAdvancing ==
    /\ timers # <<>> /\ Head(timers) = "win"
    /\ \E layout \in Layouts(palette), color1 \in palette, color2 \in palette :
         InitLevel(layout, color1, color2)
    /\ gameState' = "playing"
    /\ level' = level + 1
    /\ timers' = Tail(timers)
    /\ UNCHANGED <<score, highScore, storage, menuShown, palette, probe>>

\* The timeout set on a win fires: initLevel, then gameState = 'playing'
WinTimer ==
    /\ timers # <<>> /\ Head(timers) = "win"
    /\ \E layout \in Layouts(palette), color1 \in palette, color2 \in palette :
         InitLevel(layout, color1, color2)
    /\ gameState' = "playing"
    /\ timers' = Tail(timers)
    /\ UNCHANGED <<score, level, highScore, storage, menuShown, palette, probe>>

\* The timeout set on a loss fires: showMainMenu
LoseTimer ==
    /\ timers # <<>> /\ Head(timers) = "gameover"
    /\ menuShown' = TRUE
    /\ timers' = Tail(timers)
    /\ UNCHANGED <<gameState, score, level, highScore, storage, exploded, grid, shooter, movingBubbles,
                   palette, probe>>

\* new BubbleGame(): an empty grid, a loaded shooter, the menu showing
ConstructedWith(colors, item) ==
    /\ palette = colors
    /\ gameState = "menu"
    /\ score = 0
    /\ level = 1
    /\ storage = item
    /\ exploded = <<>>
    /\ highScore = ReadHighScore(item)
    /\ grid = EmptyGrid
    /\ \E color1 \in colors, color2 \in colors : shooter = ShooterReset(1, color1, 2, color2)
    /\ movingBubbles = <<>>
    /\ timers = <<>>
    /\ menuShown = TRUE
    /\ probe = NoProbe

\* new BubbleGame() in a browser that holds no high score yet
Constructed(colors) == ConstructedWith(colors, NoItem)

\* What localStorage can hold when the page loads: nothing, or the high
\* score an earlier visit saved
StoredItems == {NoItem, StoredScore}

\* The whole life of the game, one colour in play
Init == \E item \in StoredItems : ConstructedWith(OneColor, item)

Next ==
    \/ ClickStart
    \/ ClickRestart
    \/ TogglePause
    \/ MouseMove
    \/ MouseClick
    \/ KeySpace
    \/ Frame
    \/ WinTimer
    \/ LoseTimer

Spec == Init /\ [][Next]_vars

\* One match from its start to its end, two colours in play: the state
\* startGame leaves after construction, then pointer, key, pause, frame and
\* timer events.
PlayInit ==
    /\ palette = Colors
    /\ gameState = "playing"
    /\ score = 0
    /\ level = 1
    /\ highScore = 0
    /\ storage = NoItem
    /\ exploded = <<>>
    /\ menuShown = FALSE
    /\ timers = <<>>
    /\ movingBubbles = <<>>
    /\ probe = NoProbe
    /\ \E layout \in Layouts(Colors), color1 \in Colors, color2 \in Colors :
         LET g == CreateLevel(EmptyGrid, layout, 1)
             id1 == FreshId(GridIds(g))
             id2 == FreshId(GridIds(g) \cup {id1})
         IN /\ grid = g
            /\ shooter = ShooterReset(id1, color1, id2, color2)

PlayNext ==
    \/ TogglePause
    \/ MouseMove
    \/ MouseClick
    \/ KeySpace
    \/ Frame
    \/ WinTimer
    \/ LoseTimer

PlaySpec == PlayInit /\ [][PlayNext]_vars

\* ------------------------------------------------- no input while waiting
\* The whole life of the game with no input arriving once the match is won or
\* lost.  A pending timeout fires: setTimeout runs its callback once the delay
\* has passed.
Waiting == gameState \in {"win", "gameover"}

QuietNext ==
    \/ ~Waiting /\ ClickStart
    \/ ~Waiting /\ ClickRestart
    \/ ~Waiting /\ TogglePause
    \/ ~Waiting /\ MouseMove
    \/ ~Waiting /\ MouseClick
    \/ ~Waiting /\ KeySpace
    \/ Frame
    \/ WinTimer
    \/ LoseTimer

QuietSpec == Init /\ [][QuietNext]_vars /\ WF_vars(WinTimer) /\ WF_vars(LoseTimer)

\* --------------------------------------------------- the grid on its own
\* Every content of the grid over two colours with at most MaxOccupied
\* occupants, each static in its cell as addBubble leaves it, and one direct
\* call of an operation on it.
GridContents ==
    {CreateLevel(EmptyGrid, [r \in 1 .. Rows |-> [c \in 1 .. Cols |-> f[<<r - 1, c - 1>>]]], 1) :
        f \in {h \in [Cells -> Colors \cup {NoColor}] :
                  Cardinality({cell \in Cells : h[cell] # NoColor}) <= MaxOccupied}}

\* The cells a call names: every cell, and one cell off each edge
ProbeCells == Cells \cup {<<-1, 0>>, <<Rows, 0>>, <<0, -1>>, <<0, Cols>>}

GridInit ==
    /\ palette = Colors
    /\ gameState = "playing"
    /\ score = 0
    /\ level = 1
    /\ highScore = 0
    /\ storage = NoItem
    /\ exploded = <<>>
    /\ menuShown = FALSE
    /\ timers = <<>>
    /\ movingBubbles = <<>>
    /\ probe = NoProbe
    /\ grid \in GridContents
    /\ shooter = ShooterReset(Rows * Cols + 1, "#FF6B6B", Rows * Cols + 2, "#FF6B6B")

\* bubbleGrid.findConnectedBubbles(row, col, color)
CallFindConnected ==
    \E cell \in ProbeCells, color \in Colors :
        /\ probe = NoProbe
        /\ probe' = [op |-> "findConnectedBubbles", row |-> cell[1], col |-> cell[2],
                     color |-> color,
                     result |-> FindConnectedBubbles(grid, cell[1], cell[2], color)]
        /\ UNCHANGED <<gameState, score, level, highScore, storage, exploded, grid, shooter, movingBubbles,
                       timers, menuShown, palette>>

\* game.checkElimination(row, col)
CallCheckElimination ==
    \E cell \in ProbeCells :
        LET w == CheckElimination([grid |-> grid, score |-> score, highScore |-> highScore,
                                   stored |-> storage, exploded |-> exploded],
                                  cell[1], cell[2])
        IN /\ probe = NoProbe
           /\ probe' = [op |-> "checkElimination", row |-> cell[1], col |-> cell[2]]
           /\ grid' = w.grid
           /\ score' = w.score
           /\ highScore' = w.highScore
           /\ storage' = w.stored
           /\ exploded' = w.exploded
           /\ UNCHANGED <<gameState, level, shooter, movingBubbles, timers, menuShown,
                          palette>>

\* The pixel points a call names: the centre of every cell and of the cells
\* one off each edge, and the points half a bubble to the right of them
ProbePoints ==
    {[x |-> GetPosition(r, c).x + dx, y |-> GetPosition(r, c).y] :
        r \in -1 .. Rows, c \in -1 .. Cols, dx \in {0, bubbleRadius}}

\* bubbleGrid.findNearestEmptyPosition(x, y)
CallFindNearest ==
    \E point \in ProbePoints :
        /\ probe = NoProbe
        /\ probe' = [op |-> "findNearestEmptyPosition", x |-> point.x, y |-> point.y,
                     result |-> FindNearestEmptyPosition(grid, point.x, point.y)]
        /\ UNCHANGED <<gameState, score, level, highScore, storage, exploded, grid, shooter, movingBubbles,
                       timers, menuShown, palette>>

\* bubbleGrid.addBubble(row, col, bubble) with a bubble in flight
CallAddBubble ==
    \E cell \in ProbeCells, color \in Colors :
        LET passed == [NewBubble(Rows * Cols + 3, ShooterX, TopThreshold, color, ShotRadius)
                          EXCEPT !.vx = ProbeSpeed, !.vy = -ProbeSpeed, !.state = "moving"]
            added == AddBubble(grid, cell[1], cell[2], passed)
        IN /\ probe = NoProbe
           /\ probe' = [op |-> "addBubble", row |-> cell[1], col |-> cell[2],
                        passed |-> passed, bubble |-> added.bubble, result |-> added.ok]
           /\ grid' = added.grid
           /\ UNCHANGED <<gameState, score, level, highScore, storage, exploded, shooter, movingBubbles,
                          timers, menuShown, palette>>

\* bubbleGrid.removeBubble(row, col)
CallRemoveBubble ==
    \E cell \in ProbeCells :
        LET removed == RemoveBubble(grid, cell[1], cell[2])
        IN /\ probe = NoProbe
           /\ probe' = [op |-> "removeBubble", row |-> cell[1], col |-> cell[2],
                        result |-> removed.bubble]
           /\ grid' = removed.grid
           /\ UNCHANGED <<gameState, score, level, highScore, storage, exploded, shooter, movingBubbles,
                          timers, menuShown, palette>>

\* bubbleGrid.getBubble(row, col)
CallGetBubble ==
    \E cell \in ProbeCells :
        /\ probe = NoProbe
        /\ probe' = [op |-> "getBubble", row |-> cell[1], col |-> cell[2],
                     result |-> GetBubble(grid, cell[1], cell[2])]
        /\ UNCHANGED <<gameState, score, level, highScore, storage, exploded, grid, shooter, movingBubbles,
                       timers, menuShown, palette>>

GridNext ==
    \/ CallFindConnected
    \/ CallCheckElimination
    \/ CallFindNearest
    \/ CallAddBubble
    \/ CallRemoveBubble
    \/ CallGetBubble

GridSpec == GridInit /\ [][GridNext]_vars

\* ------------------------------------------------ the shooter on its own
\* A constructed shooter and direct calls of its methods, two colours in
\* play.  probe holds the bubble the last shoot() returned.
ProbeIds == IF probe.op = "shoot" /\ ~IsNull(probe.result) THEN {probe.result.id} ELSE {}

ShooterInit ==
    /\ Constructed(Colors)

\* shooter.aim(x, y)
CallAim ==
    \E target \in AimTargets :
        /\ shooter' = Aim(shooter, target.x, target.y)
        /\ UNCHANGED <<gameState, score, level, highScore, storage, exploded, grid, movingBubbles, timers,
                       menuShown, palette, probe>>

\* shooter.shoot()
CallShoot ==
    \E color \in palette :
        LET shot == ShooterShoot(shooter, FreshId(ShooterIds(shooter)), color)
        IN /\ shooter' = shot.shooter
           /\ probe' = [op |-> "shoot", result |-> shot.bubble,
                        trajectory |-> shooter.trajectory, frames |-> 0,
                        flight |-> shot.bubble]
           /\ UNCHANGED <<gameState, score, level, highScore, storage, exploded, grid, movingBubbles, timers,
                          menuShown, palette>>

\* shooter.swapBubbles()
CallSwap ==
    /\ shooter' = SwapBubbles(shooter)
    /\ UNCHANGED <<gameState, score, level, highScore, storage, exploded, grid, movingBubbles, timers,
                   menuShown, palette, probe>>

\* shooter.reset()
CallReset ==
    \E color1 \in palette, color2 \in palette :
        LET id1 == FreshId(ProbeIds)
            id2 == FreshId(ProbeIds \cup {id1})
        IN /\ shooter' = ShooterReset(id1, color1, id2, color2)
           /\ UNCHANGED <<gameState, score, level, highScore, storage, exploded, grid, movingBubbles, timers,
                          menuShown, palette, probe>>

\* shooter.setAvailableColors(colors), colors a non-empty list
CallSetAvailableColors ==
    \E colors \in (SUBSET Colors) \ {{}} :
        \E color1 \in colors, color2 \in colors :
            LET id1 == FreshId(ProbeIds)
                id2 == FreshId(ProbeIds \cup {id1})
            IN /\ palette' = colors
               /\ shooter' = SetAvailableColors(shooter, id1, color1, id2, color2)
               /\ UNCHANGED <<gameState, score, level, highScore, storage, exploded, grid, movingBubbles,
                              timers, menuShown, probe>>

\* One frame of the flight of the bubble shoot() returned, as
\* updateMovingBubbles runs it: bubble.update(), then
\* bubble.bounceOffWalls(width, height); the flight ends at the top line
CallFlightFrame ==
    /\ probe.op = "shoot"
    /\ ~IsNull(probe.flight)
    /\ probe.flight.y > TopThreshold
    /\ probe' = [probe EXCEPT
                    !.frames = probe.frames + 1,
                    !.flight = BounceOffWalls(BubbleUpdate(probe.flight),
                                              CanvasWidth, CanvasHeight)]
    /\ UNCHANGED <<gameState, score, level, highScore, storage, exploded, grid, shooter,
                   movingBubbles, timers, menuShown, palette>>

ShooterNext ==
    \/ CallFlightFrame
    \/ CallAim
    \/ CallShoot
    \/ CallSwap
    \/ CallReset
    \/ CallSetAvailableColors

ShooterSpec == ShooterInit /\ [][ShooterNext]_vars

\* ------------------------------------------------- direct calls of the load
\* One direct call of createLevel on a grid that is empty or full.
PriorGrids ==
    {EmptyGrid} \cup
    {CreateLevel(EmptyGrid, [r \in 1 .. Rows |-> [c \in 1 .. Cols |-> color]], 1) :
        color \in Colors}

\* The layouts a call passes: one row and one column more than the grid
\* has, at most MaxOccupied entries holding a colour
ColouredEntries ==
    {K \in SUBSET ((1 .. Rows + 1) \X (1 .. Cols + 1)) : Cardinality(K) <= MaxOccupied}

\* The layout that holds the colour f[e] at each entry e of K and nothing
\* elsewhere
ProbeLayout(K, f) ==
    [r \in 1 .. Rows + 1 |->
        [c \in 1 .. Cols + 1 |-> IF <<r, c>> \in K THEN f[<<r, c>>] ELSE NoColor]]

LevelInit ==
    /\ palette = Colors
    /\ gameState = "playing"
    /\ score = 0
    /\ level = 1
    /\ highScore = 0
    /\ storage = NoItem
    /\ exploded = <<>>
    /\ menuShown = FALSE
    /\ timers = <<>>
    /\ movingBubbles = <<>>
    /\ probe = NoProbe
    /\ grid \in PriorGrids
    /\ shooter = ShooterReset(Rows * Cols + 1, "#FF6B6B", Rows * Cols + 2, "#FF6B6B")

\* bubbleGrid.createLevel({bubbles: layout})
CallCreateLevel ==
    /\ probe = NoProbe
    /\ \E K \in ColouredEntries :
         \E f \in [K -> Colors] :
         /\ probe' = [op |-> "createLevel", bubbles |-> ProbeLayout(K, f),
                      before |-> Cardinality(GridIds(grid))]
         /\ grid' = CreateLevel(grid, ProbeLayout(K, f), Rows * Cols + 3)
         /\ UNCHANGED <<gameState, score, level, highScore, storage, exploded, shooter, movingBubbles,
                        timers, menuShown, palette>>

LevelNext ==
    \/ CallCreateLevel

LevelSpec == LevelInit /\ [][LevelNext]_vars

\* ------------------------------------------- elimination on a wider grid
\* A BubbleGrid of WideRows x WideCols cells holding at most WideOccupied
\* bubbles of two colours, each as createLevel's addBubble leaves it, and one
\* direct call of checkElimination.  probe keeps the grid the call found.
WideCells == (0 .. WideRows - 1) \X (0 .. WideCols - 1)

WideBubble(cell, color) ==
    LET pos == GetPosition(cell[1], cell[2])
    IN Stop(SetGridPosition(NewBubble(cell[1] * WideCols + cell[2] + 1, pos.x, pos.y,
                                      color, bubbleRadius),
                            cell[1], cell[2]))

WideGrid(K, f) == [cell \in WideCells |-> IF cell \in K THEN WideBubble(cell, f[cell]) ELSE Null]

WideProbeCells ==
    WideCells \cup {<<-1, 0>>, <<WideRows, 0>>, <<0, -1>>, <<0, WideCols>>}

WideInit ==
    /\ palette = Colors
    /\ gameState = "playing"
    /\ score = 0
    /\ level = 1
    /\ highScore = 0
    /\ storage = NoItem
    /\ exploded = <<>>
    /\ menuShown = FALSE
    /\ timers = <<>>
    /\ movingBubbles = <<>>
    /\ probe = NoProbe
    /\ \E K \in {S \in SUBSET WideCells : Cardinality(S) <= WideOccupied} :
           \E f \in [K -> Colors] : grid = WideGrid(K, f)
    /\ shooter = ShooterReset(WideRows * WideCols + 1, "#FF6B6B",
                              WideRows * WideCols + 2, "#FF6B6B")

\* game.checkElimination(row, col) on the wider grid
CallCheckEliminationWide ==
    \E cell \in WideProbeCells :
        LET w == CheckEliminationIn(WideRows, WideCols,
                                    [grid |-> grid, score |-> score, highScore |-> highScore,
                                     stored |-> storage, exploded |-> exploded],
                                    cell[1], cell[2])
        IN /\ probe = NoProbe
           /\ probe' = [op |-> "checkElimination", row |-> cell[1], col |-> cell[2],
                        before |-> grid]
           /\ grid' = w.grid
           /\ score' = w.score
           /\ highScore' = w.highScore
           /\ storage' = w.stored
           /\ exploded' = w.exploded
           /\ UNCHANGED <<gameState, level, shooter, movingBubbles, timers, menuShown,
                          palette>>

WideNext == CallCheckEliminationWide

WideSpec == WideInit /\ [][WideNext]_vars

\* ------------------------------------------------ direct calls on geometry
\* One direct call of a geometric operation on a constructed game.
GeometryInit == Constructed(OneColor)

\* Horizontal positions around both walls of a canvas of the given width
BounceXs(width) ==
    {-2 * ProbeMargin, 0, ShotRadius - ProbeMargin, ShotRadius, ShotRadius + ProbeMargin,
     width \div 2, width - ShotRadius - ProbeMargin, width - ShotRadius,
     width - ShotRadius + ProbeMargin, width + ProbeMargin}

\* Vertical positions around the top edge and around the bottom edge
BounceYs ==
    {-2 * ProbeMargin, ShotRadius - ProbeMargin, ShotRadius, ShotRadius + ProbeMargin,
     CanvasHeight \div 2, CanvasHeight - ShotRadius - ProbeMargin,
     CanvasHeight - ShotRadius, CanvasHeight + ProbeMargin}

Speeds == {-ProbeSpeed, 0, ProbeSpeed}

\* bubble.bounceOffWalls(width, height) on a moving bubble
CallBounce ==
    \E width \in {CanvasWidth, 2 * ShotRadius} :
        \E x \in BounceXs(width), y \in BounceYs, vx \in Speeds, vy \in Speeds :
            LET bubble == [NewBubble(3, x, y, "#FF6B6B", ShotRadius)
                              EXCEPT !.vx = vx, !.vy = vy, !.state = "moving"]
            IN /\ probe = NoProbe
               /\ probe' = [op |-> "bounceOffWalls", bubble |-> bubble, width |-> width,
                            height |-> CanvasHeight,
                            result |-> BounceOffWalls(bubble, width, CanvasHeight)]
               /\ UNCHANGED <<gameState, score, level, highScore, storage, exploded, grid, shooter,
                              movingBubbles, timers, menuShown, palette>>

\* bubbleGrid.getGridPosition(p.x, p.y) with p = bubbleGrid.getPosition(row,
\* col), for the cells of the grid the game constructs
CallRoundTrip ==
    \E row \in 0 .. GameRows - 1, col \in 0 .. GameCols - 1 :
        LET pos == GetPosition(row, col)
        IN /\ probe = NoProbe
           /\ probe' = [op |-> "getGridPosition", row |-> row, col |-> col,
                        x |-> pos.x, y |-> pos.y, result |-> GetGridPosition(pos.x, pos.y)]
           /\ UNCHANGED <<gameState, score, level, highScore, storage, exploded, grid, shooter,
                          movingBubbles, timers, menuShown, palette>>

\* new BubbleGrid(rows, cols).getNeighbors(row, col), the cell in the grid or
\* one off an edge
CallGetNeighbors ==
    \E rows \in 1 .. MaxDim, cols \in 1 .. MaxDim :
        \E row \in -1 .. rows, col \in -1 .. cols :
            /\ probe = NoProbe
            /\ probe' = [op |-> "getNeighbors", rows |-> rows, cols |-> cols,
                         row |-> row, col |-> col,
                         result |-> NeighborsIn(rows, cols, row, col)]
            /\ UNCHANGED <<gameState, score, level, highScore, storage, exploded, grid, shooter,
                           movingBubbles, timers, menuShown, palette>>

\* bubble.explode() on a bubble at rest in a cell
CallExplode ==
    \E cell \in Cells, color \in Colors :
        LET pos == GetPosition(cell[1], cell[2])
            bubble == AddBubble(EmptyGrid, cell[1], cell[2],
                                NewBubble(3, pos.x, pos.y, color, bubbleRadius)).bubble
        IN /\ probe = NoProbe
           /\ probe' = [op |-> "explode", calls |-> 0, bubble |-> Explode(bubble)]
           /\ UNCHANGED <<gameState, score, level, highScore, storage, exploded, grid, shooter,
                          movingBubbles, timers, menuShown, palette>>

\* bubble.update() on the bubble explode() was called on
CallUpdate ==
    /\ probe.op = "explode"
    /\ probe.calls < MaxUpdates
    /\ probe' = [probe EXCEPT !.calls = probe.calls + 1,
                              !.bubble = BubbleUpdate(probe.bubble)]
    /\ UNCHANGED <<gameState, score, level, highScore, storage, exploded, grid, shooter,
                   movingBubbles, timers, menuShown, palette>>

GeometryNext ==
    \/ CallBounce
    \/ CallExplode
    \/ CallUpdate
    \/ CallRoundTrip
    \/ CallGetNeighbors

GeometrySpec == GeometryInit /\ [][GeometryNext]_vars

\* ------------------------------------------------------------ properties
\* The cells adjacent to a cell, as getNeighbors lists them
Adjacent(cell) ==
    LET neighbors == GetNeighbors(cell[1], cell[2])
    IN {neighbors[i] : i \in 1 .. Len(neighbors)}

\* The least set of cells that holds the cells of S and every cell of the
\* given colour adjacent to one of its cells
RECURSIVE SameColorClosure(_, _, _)
SameColorClosure(g, color, S) ==
    LET more == {n \in Cells : /\ ~IsNull(g[n])
                              /\ g[n].color = color
                              /\ \E c \in S : n \in Adjacent(c)}
    IN IF more \subseteq S THEN S ELSE SameColorClosure(g, color, S \cup more)

\* The cells a returned list names, in order
ListedCells(list) == [i \in 1 .. Len(list) |-> <<list[i].row, list[i].col>>]

\* C1: connectedSameColor(r, c, color), for an in-bounds origin whose occupant
\* has the requested colour, returns exactly the cells reachable from the
\* origin through neighbour steps over occupants of that colour, the origin
\* among them and every cell listed once, also where the adjacency has
\* cycles; for an empty origin or one of another colour it returns nothing.
C1_ConnectedSameColor ==
    probe.op = "findConnectedBubbles" =>
        LET origin == <<probe.row, probe.col>>
            listed == ListedCells(probe.result)
        IN IF origin \in Cells /\ ~IsNull(grid[origin]) /\ grid[origin].color = probe.color
           THEN /\ {listed[i] : i \in 1 .. Len(listed)}
                     = SameColorClosure(grid, probe.color, {origin})
                /\ \E i \in 1 .. Len(listed) : listed[i] = origin
                /\ \A i, j \in 1 .. Len(listed) : listed[i] = listed[j] => i = j
                /\ \A i \in 1 .. Len(listed) : probe.result[i].bubble = grid[listed[i]]
           ELSE probe.result = <<>>

\* A search has returned three cells that are adjacent to one another: the
\* adjacency it walked has a cycle.
C1_Witness ==
    /\ probe.op = "findConnectedBubbles"
    /\ LET listed == ListedCells(probe.result)
       IN \E i, j, k \in 1 .. Len(listed) :
              /\ i < j /\ j < k
              /\ listed[j] \in Adjacent(listed[i])
              /\ listed[k] \in Adjacent(listed[j])
              /\ listed[i] \in Adjacent(listed[k])

\* The cell the one bubble in flight lands in when this frame attaches it
LandingCell ==
    LET shot == BounceOffWalls(BubbleUpdate(movingBubbles[1]), CanvasWidth, CanvasHeight)
        at == FindNearestEmptyPosition(grid, shot.x, shot.y)
    IN <<at.row, at.col>>

\* The connected same-colour set the landing produces: the landing cell and
\* what is reachable from it once the bubble lies there
LandingGroup ==
    LET landed == [grid EXCEPT ![LandingCell] = movingBubbles[1]]
    IN SameColorClosure(landed, movingBubbles[1].color, {LandingCell})

\* A frame in which the one bubble in flight lands
Landing ==
    /\ gameState = "playing"
    /\ Len(movingBubbles) = 1
    /\ movingBubbles' = <<>>
    /\ Frame

\* C2: when a landing produces a connected same-colour set of N >= 3 cells,
\* that step empties exactly those N cells, every other cell keeps its
\* occupancy and colour, and the score grows by exactly 10 * N.
C2_EliminationScores ==
    [][Landing /\ Cardinality(LandingGroup) >= MinGroup =>
          /\ \A cell \in LandingGroup : IsNull(grid'[cell])
          /\ \A cell \in Cells \ LandingGroup :
                 /\ IsNull(grid'[cell]) <=> IsNull(grid[cell])
                 /\ ~IsNull(grid[cell]) => grid'[cell].color = grid[cell].color
          /\ score' = score + ScorePerBubble * Cardinality(LandingGroup)]_vars

\* A group of three has been eliminated by a landing: the score stands at
\* thirty or more and nothing is in flight.
C2_Witness ==
    /\ score >= ScorePerBubble * MinGroup
    /\ movingBubbles = <<>>
    /\ gameState \in {"playing", "win"}

\* The cell a direct call of checkElimination named holds nothing, or its
\* connected same-colour set has fewer than three cells
BelowThreshold(g, cell) ==
    \/ cell \notin Cells
    \/ IsNull(g[cell])
    \/ Cardinality(SameColorClosure(g, g[cell].color, {cell})) < MinGroup

\* C3: the elimination check on a cell without occupant, or whose connected
\* same-colour set has fewer than 3 cells, changes nothing: the grid and its
\* occupants, the bubbles in flight and in the shooter, and the score.
C3_EliminationNoOp ==
    [][probe'.op = "checkElimination" /\ BelowThreshold(grid, <<probe'.row, probe'.col>>) =>
          /\ grid' = grid
          /\ score' = score
          /\ highScore' = highScore
          /\ movingBubbles' = movingBubbles
          /\ shooter' = shooter]_vars

\* The check has been called on a cell whose occupant has exactly one
\* neighbour of its colour, and both are still there.
C3_Witness ==
    /\ probe.op = "checkElimination"
    /\ <<probe.row, probe.col>> \in Cells
    /\ ~IsNull(grid[<<probe.row, probe.col>>])
    /\ Cardinality(SameColorClosure(grid, grid[<<probe.row, probe.col>>].color,
                                    {<<probe.row, probe.col>>})) = MinGroup - 1

\* C4: no bubble is at once in movingBubbles and the occupant of a grid
\* cell, after any sequence of start, restart, aim, fire, pause, frames and
\* timer callbacks.
C4_FlightAndGridDisjoint == GridIds(grid) \cap MovingIds(movingBubbles) = {}

\* A fired bubble (radius 15) lies in the grid while another is in flight.
C4_Witness ==
    /\ \E cell \in Cells : ~IsNull(grid[cell]) /\ grid[cell].radius = ShotRadius
    /\ movingBubbles # <<>>

\* C5: every occupant of a cell (r, c) stores the grid coordinates (r, c) and
\* has the pixel position getPosition(r, c).
C5_OccupantAtItsCell ==
    \A cell \in Cells :
        ~IsNull(grid[cell]) =>
            /\ grid[cell].gridRow = cell[1]
            /\ grid[cell].gridCol = cell[2]
            /\ grid[cell].x = GetPosition(cell[1], cell[2]).x
            /\ grid[cell].y = GetPosition(cell[1], cell[2]).y

\* A fired bubble has landed in the odd row, next to a bubble the level load
\* placed.
C5_Witness ==
    /\ \E col \in 0 .. Cols - 1 :
           ~IsNull(grid[<<1, col>>]) /\ grid[<<1, col>>].radius = ShotRadius
    /\ \E col \in 0 .. Cols - 1 :
           ~IsNull(grid[<<0, col>>]) /\ grid[<<0, col>>].radius = bubbleRadius

\* C10: the shooter's angle lies in the clamped cone [-0.8 pi, -0.2 pi] after
\* construction and after any sequence of aim, shoot, swapBubbles and reset.
C10_AngleInCone == MinAngle <= shooter.angle /\ shooter.angle <= MaxAngle

\* The shooter was aimed at a target the clamp cut to the edge of the cone,
\* and has fired since.
C10_Witness ==
    /\ shooter.angle \in {MinAngle, MaxAngle}
    /\ shooter.trajectory # <<>>
    /\ probe.op = "shoot"

\* The transitions of the match state the state diagram has
DiagramTransitions ==
    {<<"menu", "playing">>, <<"playing", "paused">>, <<"paused", "playing">>,
     <<"playing", "win">>, <<"win", "playing">>, <<"playing", "gameover">>,
     <<"gameover", "menu">>}

\* C6: the match state changes only along menu -> playing, playing -> paused,
\* paused -> playing, playing -> won, won -> playing, playing -> lost and
\* lost -> menu, whatever buttons, inputs, frames and timer callbacks occur.
C6_OnlyDiagramTransitions ==
    [][gameState' # gameState => <<gameState, gameState'>> \in DiagramTransitions]_vars

\* C7: once the match is lost and no input arrives, the timeout set by the
\* loss fires, and when it fires the match state becomes menu.
C7_LossLeadsToMenu ==
    /\ (gameState = "gameover") ~> (timers = <<>>)
    /\ [][gameState = "gameover" /\ LoseTimer => gameState' = "menu"]_vars

\* The grids a level load can leave
LoadedGrids == {CreateLevel(EmptyGrid, layout, 1) : layout \in Layouts(palette)}

\* C8: once the match is won and no input arrives, the timeout fires and the
\* match is playing again; the win raises the level by exactly one, the level
\* and the score stay as they are while the state is won, and the return to
\* playing comes with a freshly loaded grid and nothing in flight.
C8_WinLeadsToNextLevel ==
    /\ (gameState = "win") ~> (gameState = "playing")
    /\ [][gameState = "playing" /\ gameState' = "win" => level' = level + 1]_vars
    /\ [][gameState = "win" =>
             /\ gameState' \in {"win", "playing"}
             /\ level' = level
             /\ score' = score
             /\ gameState' = "playing" =>
                    movingBubbles' = <<>> /\ grid' \in LoadedGrids]_vars

\* A match that scored, was won, and is playing the next level
C8_Witness ==
    /\ gameState = "playing"
    /\ level = 2
    /\ score > 0
    /\ timers = <<>>

\* C9: a frame executed while playing ends in won iff no cell is occupied, in
\* lost iff a cell of the last row is occupied, and in playing otherwise;
\* never both.
C9_FrameVerdict ==
    [][gameState = "playing" /\ Frame =>
          LET cleared == \A cell \in Cells : IsNull(grid'[cell])
              overflowed == \E col \in 0 .. Cols - 1 : ~IsNull(grid'[<<Rows - 1, col>>])
          IN /\ gameState' = "win" <=> cleared
             /\ gameState' = "gameover" <=> overflowed
             /\ gameState' = "playing" <=> ~cleared /\ ~overflowed
             /\ ~(cleared /\ overflowed)]_vars

\* The match was lost with the last row occupied and a cell of the first row
\* empty.
C9_Witness ==
    /\ gameState = "gameover"
    /\ \E col \in 0 .. Cols - 1 : ~IsNull(grid[<<Rows - 1, col>>])
    /\ \E col \in 0 .. Cols - 1 : IsNull(grid[<<0, col>>])

\* C12: shoot() with a loaded bubble returns that very bubble, moving, at the
\* muzzle, with velocity power * (cos angle, sin angle); afterwards the loaded
\* slot holds the bubble that was queued, the queued slot holds a new bubble
\* whose colour is in the palette, and neither slot holds the returned bubble.
C12_ShootPromotes ==
    [][CallShoot /\ ~IsNull(shooter.currentBubble) =>
          LET fired == probe'.result
          IN /\ ~IsNull(fired)
             /\ fired.id = shooter.currentBubble.id
             /\ fired.color = shooter.currentBubble.color
             /\ fired.state = "moving"
             /\ fired.x = ShooterX /\ fired.y = ShooterY - ShotOffsetY
             /\ fired.vx = CosPower(shooter.angle)
             /\ fired.vy = SinPower(shooter.angle)
             /\ shooter'.currentBubble = shooter.nextBubble
             /\ ~IsNull(shooter'.nextBubble)
             /\ shooter'.nextBubble.id \notin ShooterIds(shooter)
             /\ shooter'.nextBubble.color \in palette
             /\ shooter'.nextBubble.state = "static"
             /\ fired.id \notin ShooterIds(shooter')
             /\ shooter'.angle = shooter.angle]_vars

\* A shot was fired sideways after the shooter was aimed off the vertical
C12_Witness ==
    /\ probe.op = "shoot"
    /\ ~IsNull(probe.result)
    /\ probe.result.state = "moving"
    /\ probe.result.vx # 0
    /\ probe.result.id \notin ShooterIds(shooter)

\* C13: after construction and after any sequence of shoot, swapBubbles,
\* reset and setAvailableColors, the loaded and the queued bubble both
\* exist and are two different bubbles.
C13_BothSlotsFilled ==
    /\ ~IsNull(shooter.currentBubble)
    /\ ~IsNull(shooter.nextBubble)
    /\ shooter.currentBubble.id # shooter.nextBubble.id

\* A shot was fired, the palette was narrowed, and the slots hold bubbles in
\* the order a swap leaves them in
C13_Witness ==
    /\ probe.op = "shoot"
    /\ palette # Colors
    /\ ~IsNull(shooter.currentBubble) /\ ~IsNull(shooter.nextBubble)
    /\ shooter.currentBubble.id > shooter.nextBubble.id

\* C14: bounceOffWalls negates vx and clamps x into [radius, width - radius]
\* when x <= radius or x >= width - radius; negates vy and sets y = radius
\* when y <= radius; does nothing at the bottom edge; and otherwise leaves
\* position and velocity as they were.
C14_BounceOffWalls ==
    probe.op = "bounceOffWalls" =>
        LET b == probe.bubble
            a == probe.result
            atSide == b.x <= b.radius \/ b.x >= probe.width - b.radius
            atTop == b.y <= b.radius
        IN /\ atSide => /\ a.vx = -b.vx
                        /\ a.x >= b.radius /\ a.x <= probe.width - b.radius
                        /\ b.x <= b.radius => a.x = b.radius
                        /\ b.x >= probe.width - b.radius => a.x = probe.width - b.radius
           /\ ~atSide => a.vx = b.vx /\ a.x = b.x
           /\ atTop => a.vy = -b.vy /\ a.y = b.radius
           /\ ~atTop => a.vy = b.vy /\ a.y = b.y
           /\ a = [b EXCEPT !.x = a.x, !.y = a.y, !.vx = a.vx, !.vy = a.vy]

\* The example of the claim (x = -2, vx = -3), on a bubble that is past the
\* bottom edge and moving down
C14_Witness ==
    /\ probe.op = "bounceOffWalls"
    /\ probe.bubble.x = -2 * ProbeMargin /\ probe.bubble.vx = -ProbeSpeed
    /\ probe.result.x = ShotRadius /\ probe.result.vx = ProbeSpeed
    /\ probe.bubble.y >= probe.height /\ probe.bubble.vy = ProbeSpeed
    /\ probe.result.y = probe.bubble.y /\ probe.result.vy = ProbeSpeed

\* The cell of a pixel point, clamped into the grid
ClampedCell(x, y) ==
    LET at == GetGridPosition(x, y)
    IN [row |-> IF at.row < 0 THEN 0 ELSE IF at.row > Rows - 1 THEN Rows - 1 ELSE at.row,
        col |-> IF at.col < 0 THEN 0 ELSE IF at.col > Cols - 1 THEN Cols - 1 ELSE at.col]

\* C15: for any pixel point and any grid content findNearestEmptyPosition
\* returns a cell of the grid: the clamped cell of the point when it is free;
\* otherwise the free cell of the same column with the largest row above it;
\* and row 0 of that column when no cell of the column at or above the
\* clamped row is free.
C15_NearestEmptyPosition ==
    probe.op = "findNearestEmptyPosition" =>
        LET at == ClampedCell(probe.x, probe.y)
            freeAbove == {r \in 0 .. at.row : IsNull(grid[<<r, at.col>>])}
            found == probe.result
        IN /\ <<found.row, found.col>> \in Cells
           /\ found.col = at.col
           /\ at.row \in freeAbove => found.row = at.row
           /\ at.row \notin freeAbove /\ freeAbove # {} =>
                  /\ found.row \in freeAbove
                  /\ \A r \in freeAbove : r <= found.row
           /\ freeAbove = {} => found.row = 0

\* A point below the grid whose clamped cell is occupied, answered with the
\* free cell above it
C15_Witness ==
    /\ probe.op = "findNearestEmptyPosition"
    /\ GetGridPosition(probe.x, probe.y).row > Rows - 1
    /\ ~IsNull(grid[<<Rows - 1, ClampedCell(probe.x, probe.y).col>>])
    /\ probe.result.row < Rows - 1
    /\ IsNull(grid[<<probe.result.row, probe.result.col>>])

\* C16: addBubble, removeBubble and getBubble with a (row, col) outside the
\* grid return false / null and leave every cell of the grid and the passed
\* bubble (position, grid coordinates, state, velocity) as they were.
C16_OutOfRangeIsNoOp ==
    [][/\ probe = NoProbe
       /\ probe'.op \in {"addBubble", "removeBubble", "getBubble"}
       /\ <<probe'.row, probe'.col>> \notin Cells
       => /\ grid' = grid
          /\ probe'.op = "addBubble" => probe'.result = FALSE /\ probe'.bubble = probe'.passed
          /\ probe'.op # "addBubble" => IsNull(probe'.result)]_vars

\* addBubble was called with a cell off the grid and a bubble in flight, on a
\* grid that has an occupant
C16_Witness ==
    /\ probe.op = "addBubble"
    /\ <<probe.row, probe.col>> \notin Cells
    /\ probe.result = FALSE
    /\ probe.bubble.state = "moving" /\ probe.bubble.gridRow = -1
    /\ \E cell \in Cells : ~IsNull(grid[cell])

\* C17: for every cell (row, col) of the grid, getGridPosition of the pixel
\* centre getPosition(row, col) is (row, col), in even and in odd rows.
C17_PositionRoundTrip ==
    probe.op = "getGridPosition" =>
        probe.result.row = probe.row /\ probe.result.col = probe.col

\* The round trip was made through the last cell of an odd row
C17_Witness ==
    /\ probe.op = "getGridPosition"
    /\ probe.row % 2 = 1
    /\ probe.col = GameCols - 1
    /\ probe.x = startX + probe.col * hexOffsetX + bubbleRadius
    /\ probe.result.col = GameCols - 1

\* C18: for every (row, col) getNeighbors returns at most 6 cells, all of them
\* in the grid, none listed twice and none the cell itself.
C18_NeighborsWellFormed ==
    probe.op = "getNeighbors" =>
        LET listed == probe.result
        IN /\ Len(listed) <= 6
           /\ \A i \in 1 .. Len(listed) :
                  /\ listed[i][1] \in 0 .. probe.rows - 1
                  /\ listed[i][2] \in 0 .. probe.cols - 1
                  /\ listed[i] # <<probe.row, probe.col>>
                  /\ \A j \in 1 .. Len(listed) : i # j => listed[i] # listed[j]

\* An inner cell of an odd row, with all six neighbours listed
C18_Witness ==
    /\ probe.op = "getNeighbors"
    /\ probe.row % 2 = 1
    /\ Len(probe.result) = 6

\* C19: a frame executed while the game is paused leaves the grid, the
\* bubbles in flight with their positions and velocities, the score, the
\* level and the state of the game as they were.
C19_PausedFrameChangesNothing ==
    [][gameState = "paused" /\ Frame =>
          UNCHANGED <<grid, movingBubbles, score, level, gameState>>]_vars

\* The game is paused with a bubble in flight
C19_Witness ==
    /\ gameState = "paused"
    /\ movingBubbles # <<>>
    /\ movingBubbles[1].state = "moving"
    /\ movingBubbles[1].vy # 0

\* C20: mousemove, click and the space key delivered while the game is in
\* the menu, won or lost leave the angle of the shooter, its loaded and
\* queued bubbles and the bubbles in flight as they were.
C20_InputIgnoredOutsidePlay ==
    [][/\ gameState \in {"menu", "win", "gameover"}
       /\ MouseMove \/ MouseClick \/ KeySpace
       => UNCHANGED <<shooter, movingBubbles>>]_vars

\* The game is lost with the shooter still aimed off the vertical
C20_Witness ==
    /\ gameState = "gameover"
    /\ shooter.angle # UpAngle
    /\ ~IsNull(shooter.currentBubble)

\* C21: the high score is never below the score; it never decreases, start
\* and restart included; and whenever the score exceeds the high score the
\* new high score is written to localStorage in the same step.
C21_HighScoreKept ==
    /\ [](highScore >= score)
    /\ [][/\ highScore' >= highScore
          /\ score' > highScore => highScore' = score' /\ storage' = score'
          /\ highScore' # highScore => storage' = highScore']_vars

\* A match restarted after it raised the high score over the stored one
C21_Witness ==
    /\ gameState = "playing"
    /\ score = 0
    /\ highScore > StoredScore
    /\ storage = highScore

\* C22: after createLevel with a layout, a cell is occupied iff the layout
\* holds a colour at it and it is a cell of the grid, and its occupant has
\* that colour; no occupant from before the load is left; and the entries
\* of the layout outside the grid are ignored.
C22_LevelLoad ==
    [][probe'.op = "createLevel" =>
          LET layout == probe'.bubbles
          IN /\ DOMAIN grid' = Cells
             /\ \A cell \in Cells :
                    LET color == layout[cell[1] + 1][cell[2] + 1]
                    IN IF color = NoColor
                       THEN IsNull(grid'[cell])
                       ELSE /\ ~IsNull(grid'[cell])
                            /\ grid'[cell].color = color
                            /\ grid'[cell].gridRow = cell[1]
                            /\ grid'[cell].gridCol = cell[2]
             /\ GridIds(grid') \cap GridIds(grid) = {}]_vars

\* A full grid was loaded with a layout that holds a colour below the last
\* row and none at the first cell
C22_Witness ==
    /\ probe.op = "createLevel"
    /\ probe.before = Rows * Cols
    /\ probe.bubbles[Rows + 1][1] # NoColor
    /\ probe.bubbles[1][Cols + 1] # NoColor
    /\ IsNull(grid[<<0, 0>>])
    /\ ~IsNull(grid[<<0, 1>>])

\* C23: after explode(), update() keeps the bubble exploding until the budget
\* of 20 frames is used: it is destroyed after the 20th update(), and stays
\* destroyed under further calls.
C23_DestroyedAfterBudget ==
    probe.op = "explode" =>
        /\ probe.calls < ExplodeFrames => probe.bubble.state = "exploding"
        /\ probe.calls >= ExplodeFrames => probe.bubble.state = "destroyed"

\* C24: every bubble eliminated from the grid during play starts exploding
\* and is advanced by each following frame of play until it is destroyed
\* (stated for the frames that eliminate nothing themselves: the animation
\* counter of each exploding bubble goes up by one, and past the budget the
\* bubble is destroyed).
C24_EliminatedAreAdvanced ==
    [][gameState = "playing" /\ Frame /\ score' = score =>
          /\ Len(exploded') = Len(exploded)
          /\ \A i \in 1 .. Len(exploded) :
                 /\ exploded[i].state \in {"exploding", "destroyed"}
                 /\ exploded[i].state = "exploding" =>
                        /\ exploded'[i].animationFrame = exploded[i].animationFrame + 1
                        /\ exploded'[i].animationFrame > ExplodeFrames =>
                               exploded'[i].state = "destroyed"]_vars

\* C25: the trajectory computed for the angle has at most 100 points, all
\* with radius <= x <= width - radius and y above the top line, and its i-th
\* point is where the bubble shot at that angle is after its i-th frame of
\* update and bounceOffWalls, as long as the bubble has not landed.
C25_TrajectoryIsFlight ==
    probe.op = "shoot" =>
        LET points == probe.trajectory
        IN /\ Len(points) <= MaxSteps
           /\ \A i \in 1 .. Len(points) :
                  /\ points[i].x >= ShotRadius
                  /\ points[i].x <= CanvasWidth - ShotRadius
                  /\ points[i].y > TopThreshold
           /\ probe.frames \in 1 .. Len(points) =>
                  /\ points[probe.frames].x = probe.flight.x
                  /\ points[probe.frames].y = probe.flight.y

\* A shot that has bounced off a side wall and is still on the trajectory
\* that was computed for it
C25_Witness ==
    /\ probe.op = "shoot"
    /\ probe.frames \in 2 .. Len(probe.trajectory)
    /\ probe.flight.vx = -probe.result.vx
    /\ probe.flight.vx # 0
    /\ probe.trajectory[probe.frames].x = probe.flight.x

\* C26: when a bubble lands, the cell it is placed into was empty right
\* before the placement: a landing never overwrites a bubble of the grid.
C26_LandingCellWasEmpty ==
    [][Landing => IsNull(grid[LandingCell])]_vars

\* C27: the level is initialised again and the state forced to playing only
\* by start / restart or by the win callback firing while the state is still
\* 'win': a win callback that fires after a restart made during the delay
\* neither reloads the grid of the new match nor turns a paused match back
\* to playing.
C27_WinCallbackOnlyWhileWon ==
    [][WinTimer /\ gameState # "win" =>
          UNCHANGED <<grid, movingBubbles, shooter, gameState>>]_vars

\* C28: the main menu is never shown while the state is playing or paused,
\* whatever the interleaving of the loss callback with the start and
\* restart buttons.
C28_NoMenuDuringPlay ==
    ~(menuShown /\ gameState \in {"playing", "paused"})

\* C30: the neighbour relation is symmetric on every grid size: for all
\* cells a and b of the grid, getNeighbors(a) lists b exactly when
\* getNeighbors(b) lists a, between rows of different parity as well as
\* inside a row.
C30_NeighborsSymmetric ==
    (/\ probe.op = "getNeighbors"
     /\ IsValidIn(probe.rows, probe.cols, probe.row, probe.col)) =>
        \A bRow \in 0 .. probe.rows - 1, bCol \in 0 .. probe.cols - 1 :
            LET ofB == NeighborsIn(probe.rows, probe.cols, bRow, bCol)
            IN (\E i \in 1 .. Len(probe.result) : probe.result[i] = <<bRow, bCol>>)
               <=> (\E j \in 1 .. Len(ofB) : ofB[j] = <<probe.row, probe.col>>)

C30_Witness ==
    /\ probe.op = "getNeighbors"
    /\ IsValidIn(probe.rows, probe.cols, probe.row, probe.col)
    /\ probe.row % 2 = 1
    /\ \E i, j \in 1 .. Len(probe.result) :
           /\ probe.result[i][1] = probe.row - 1
           /\ probe.result[j][1] = probe.row

\* The frames a bubble in flight can still stay in flight: the frames its
\* climb needs to bring it to the top threshold
FramesLeft(b) == (b.y - TopThreshold + (-b.vy) - 1) \div (-b.vy)

\* The longest flight: from the muzzle at the flattest angle of the cone
MaxFlightFrames ==
    (ShooterY - ShotOffsetY - TopThreshold - SinPower(MaxAngle) - 1) \div (-SinPower(MaxAngle))

\* The strictly increasing maps from the bubbles in flight after a frame to
\* those in flight before it
Survivals ==
    {f \in [1 .. Len(movingBubbles') -> 1 .. Len(movingBubbles)] :
        \A j, k \in 1 .. Len(movingBubbles') : j < k => f[j] < f[k]}

\* C29: while frames execute in state playing every fired bubble leaves the
\* in-flight list by being attached to the grid, at the latest in the frame
\* that brings it to y <= 50.  A bubble in flight climbs (vy < 0), is below
\* the threshold and has at most MaxFlightFrames frames left; a frame in
\* state playing leaves in flight only bubbles that were in flight, each one
\* frame of climb nearer to the threshold and none at or above it; the one
\* bubble that leaves the list lies in its landing cell, or was eliminated
\* with its group in that frame.
C29_FlightEnds ==
    /\ [](\A i \in 1 .. Len(movingBubbles) :
             /\ movingBubbles[i].state = "moving"
             /\ movingBubbles[i].vy < 0
             /\ movingBubbles[i].y > TopThreshold
             /\ FramesLeft(movingBubbles[i]) \in 1 .. MaxFlightFrames)
    /\ [][gameState = "playing" /\ Frame =>
            /\ \E f \in Survivals :
                   \A j \in 1 .. Len(movingBubbles') :
                       /\ movingBubbles'[j].color = movingBubbles[f[j]].color
                       /\ movingBubbles'[j].vy = movingBubbles[f[j]].vy
                       /\ movingBubbles'[j].y = movingBubbles[f[j]].y + movingBubbles[f[j]].vy
                       /\ FramesLeft(movingBubbles'[j]) = FramesLeft(movingBubbles[f[j]]) - 1
            /\ \A i \in 1 .. Len(movingBubbles) :
                   movingBubbles[i].y + movingBubbles[i].vy <= TopThreshold =>
                       Len(movingBubbles') < Len(movingBubbles)
            /\ Len(movingBubbles) = 1 /\ movingBubbles' = <<>> =>
                   \/ /\ ~IsNull(grid'[LandingCell])
                      /\ grid'[LandingCell].color = movingBubbles[1].color
                      /\ grid'[LandingCell].radius = movingBubbles[1].radius
                      /\ grid'[LandingCell].state = "static"
                   \/ /\ IsNull(grid'[LandingCell])
                      /\ score' > score
                      /\ \E k \in 1 .. Len(exploded') :
                             /\ exploded'[k].radius = movingBubbles[1].radius
                             /\ exploded'[k].gridRow = LandingCell[1]
                             /\ exploded'[k].gridCol = LandingCell[2]]_vars

\* A shot bubble rests in the grid, the in-flight list is empty again and the
\* match goes on
C29_Witness ==
    /\ gameState = "playing"
    /\ movingBubbles = <<>>
    /\ \E cell \in Cells :
           /\ ~IsNull(grid[cell])
           /\ grid[cell].radius = ShotRadius
           /\ grid[cell].state = "static"

\* C31: in every reachable state every occupant of a grid cell is static with
\* zero velocity; a bubble that is in flight, or that an elimination took out
\* and set exploding, is the occupant of no cell.
C31_OccupantsRest ==
    /\ \A cell \in Cells :
           ~IsNull(grid[cell]) =>
               /\ grid[cell].state = "static"
               /\ grid[cell].vx = 0
               /\ grid[cell].vy = 0
    /\ \A i \in 1 .. Len(movingBubbles) :
           \A cell \in Cells : grid[cell].id # movingBubbles[i].id
    /\ \A i \in 1 .. Len(exploded) :
           /\ exploded[i].state = "exploding"
           /\ \A cell \in Cells : grid[cell].id # exploded[i].id

\* A shot that flew rests in the first row beside a bubble of the level
C31_Witness ==
    \E here, there \in Cells :
        /\ ~IsNull(grid[here])
        /\ grid[here].radius = ShotRadius
        /\ grid[here].gridRow = 0
        /\ ~IsNull(grid[there])
        /\ grid[there].radius = bubbleRadius

\* The cells adjacent to a cell of the wider grid, as getNeighbors lists them
WideAdjacent(cell) ==
    LET neighbors == NeighborsIn(WideRows, WideCols, cell[1], cell[2])
    IN {neighbors[i] : i \in 1 .. Len(neighbors)}

\* The least set of cells of the wider grid that holds the cells of S and
\* every cell of the given colour adjacent to one of its cells
RECURSIVE WideClosure(_, _, _)
WideClosure(g, color, S) ==
    LET more == {n \in WideCells : /\ ~IsNull(g[n])
                                  /\ g[n].color = color
                                  /\ \E c \in S : n \in WideAdjacent(c)}
    IN IF more \subseteq S THEN S ELSE WideClosure(g, color, S \cup more)

\* The connected same-colour set of the cell the call named, in the grid the
\* call found
NamedGroup ==
    LET cell == <<probe.row, probe.col>>
    IN IF cell \in WideCells /\ ~IsNull(probe.before[cell])
       THEN WideClosure(probe.before, probe.before[cell].color, {cell})
       ELSE {}

\* C32: an elimination changes only the cells of the connected same-colour
\* set of the cell it starts from.  Every cell outside that set keeps its
\* occupant as it was, whether it has the colour of the set without being
\* joined to it or is left with no path of occupants to the first row: the
\* check for falling bubbles does nothing.
C32_OnlyTheGroupChanges ==
    probe.op = "checkElimination" =>
        /\ \A cell \in WideCells \ NamedGroup : grid[cell] = probe.before[cell]
        /\ \A cell \in NamedGroup :
               IF Cardinality(NamedGroup) >= MinGroup
               THEN IsNull(grid[cell])
               ELSE grid[cell] = probe.before[cell]

\* A set of three or more has been eliminated; a bubble of its colour that
\* was not joined to it is still in its cell, and a bubble is still in the
\* second row while the first row is empty.
C32_Witness ==
    /\ probe.op = "checkElimination"
    /\ Cardinality(NamedGroup) >= MinGroup
    /\ \E cell \in WideCells \ NamedGroup :
           /\ ~IsNull(grid[cell])
           /\ grid[cell].color = probe.before[<<probe.row, probe.col>>].color
    /\ \E cell \in WideCells :
           /\ ~IsNull(grid[cell])
           /\ cell[1] > 0
           /\ \A col \in 0 .. WideCols - 1 : IsNull(grid[<<0, col>>])
           /\ \E c \in NamedGroup : cell \in WideAdjacent(c)

====
